---------------------------- MODULE Spec2Model ----------------------------
(***************************************************************************)
(* Model of the retrieval-and-conversation engine:                         *)
(*   - the FAISS vector index service (src/faiss_service/faiss_service.py) *)
(*   - the session manager (src/app/api/session_manager.py)                *)
(*   - the candidate merge of the query endpoint (src/app/api/main.py)     *)
(***************************************************************************)
EXTENDS Integers, Sequences, FiniteSets, TLC

(***************************************************************************)
(* Bounds of the model                                                     *)
(***************************************************************************)
\* largest number of vectors the index may hold before upserts are refused
MaxVecs == 2
\* largest number of chunks in one upsert payload
MaxBatch == 2
\* largest top_k a search request asks for
MaxK == 2

(***************************************************************************)
(* Input domains                                                           *)
(***************************************************************************)
Users == {"u1", "u2"}
\* req.user_id of a search that gives no owner filter (None is falsy)
NoUser == "None"
Docs == {"d1", "d2"}
\* chunk ids as process_document builds them: f"{doc_id}__{seq}"
ChunkIdsOf(doc) ==
    IF doc = "d1" THEN {"d1__0", "d1__1"} ELSE {"d2__0"}
ChunkIds == UNION {ChunkIdsOf(d) : d \in Docs}
\* raw embeddings: the empty list, two lengths, un-normalised values
Embeddings == {<< >>, <<2>>, <<-3>>, <<0, 2>>}

\* integer square root (largest r with r*r <= n)
ISqrt(n) == CHOOSE r \in 0..n : r * r <= n /\ (r + 1) * (r + 1) > n

RECURSIVE SumSq(_)
SumSq(v) == IF v = << >> THEN 0 ELSE Head(v) * Head(v) + SumSq(Tail(v))

\* faiss.normalize_L2 on one row: a zero row is left alone, every other row
\* is divided by its norm (exact on the axis-aligned rows of Embeddings)
normalize_L2(v) ==
    LET nr == ISqrt(SumSq(v))
    IN  IF nr = 0 THEN v ELSE [i \in 1..Len(v) |-> v[i] \div nr]

RECURSIVE InnerProduct(_, _)
InnerProduct(a, b) ==
    IF a = << >> \/ b = << >> THEN 0
    ELSE Head(a) * Head(b) + InnerProduct(Tail(a), Tail(b))

\* hashlib.sha1(chunk_id).digest()[:8] read as a signed big-endian int64;
\* the value is kept as its decimal text (it does not fit a 32-bit integer)
chunkid_to_int64(cid) ==
    CASE cid = "d1__0" -> "7786709536631752055"
      [] cid = "d1__1" -> "-283526391458604798"
      [] cid = "d2__0" -> "-2407804992729181797"
      [] OTHER -> "3185170224741507356"

(***************************************************************************)
(* State of the FAISS service                                              *)
(***************************************************************************)
VARIABLES
    index,          \* the global `index`: [d, rows]; d = 0 stands for None
    index_file,     \* INDEX_FILE: << >> when absent, else <<written index>>
    faiss_mappings, \* collection mongo.faiss_mappings (unique on _id)
    last,           \* the last completed request and its response
    deleted_docs,   \* history: documents deleted and not upserted since
    procs,          \* request threads of the service: position and locals
    base,           \* history: service state when no request was in flight
    round,          \* history: number of bursts of requests started
    sessions,       \* collection db.sessions (unique on session_id)
    next_sid,       \* number of session ids handed out so far
    sess_last,      \* the last completed session call and what it returned
    created_by,     \* history: <<session_id, user_id>> of every create
    deleted_sids,   \* history: session ids whose delete succeeded
    merge_in,       \* the dense and sparse hits given to the merge
    merge_out,      \* what the merge step produced
    ctx_in,         \* the arguments of a build_context_prompt call
    ctx_out,        \* what build_context_prompt returned
    q_last,         \* the last completed /query request and its response
    q_count,        \* number of /query requests completed
    clients,        \* requests of the API in flight on one session
    turn_log,       \* history: per session, the turns appended, in order
    documents,      \* collection db.documents: [doc_id, user_id, status]
    chunks_coll,    \* collection db.chunks in insertion order
    jobs,           \* per document, its ingestion job: position and locals
    dels,           \* per document, its delete request: position
    twin,           \* a second deployment, holding one owner's documents only
    iso_last        \* the last query put to both deployments, and its answers

svcVars == <<index, index_file, faiss_mappings>>
seqVars == <<last, deleted_docs>>
concVars == <<procs, base, round>>
sessVars == <<sessions, next_sid, sess_last, created_by, deleted_sids>>
mergeVars == <<merge_in, merge_out>>
ctxVars == <<ctx_in, ctx_out>>
queryVars == <<q_last, q_count>>
turnVars == <<clients, turn_log>>
ingestVars == <<documents, chunks_coll, jobs, dels>>
isoVars == <<twin, iso_last>>
vars == <<index, index_file, faiss_mappings, last, deleted_docs,
          procs, base, round,
          sessions, next_sid, sess_last, created_by, deleted_sids,
          merge_in, merge_out,
          ctx_in, ctx_out,
          q_last, q_count,
          clients, turn_log,
          documents, chunks_coll, jobs, dels,
          twin, iso_last>>
\* what the actions of each specification leave alone
notSeq == <<concVars, sessVars, mergeVars, ctxVars, queryVars, turnVars,
    ingestVars, isoVars>>
notConc == <<seqVars, sessVars, mergeVars, ctxVars, queryVars, turnVars,
    ingestVars, isoVars>>
notSess == <<svcVars, seqVars, concVars, mergeVars, ctxVars, queryVars, turnVars,
    ingestVars, isoVars>>
notMerge == <<svcVars, seqVars, concVars, sessVars, ctxVars, queryVars, turnVars,
    ingestVars, isoVars>>
notCtx == <<svcVars, seqVars, concVars, sessVars, mergeVars, queryVars,
           turnVars,
    ingestVars, isoVars>>
\* the query endpoint acts on the sessions and on its own record
notQuery == <<svcVars, seqVars, concVars, mergeVars, ctxVars, turnVars,
              sess_last, deleted_sids,
    ingestVars, isoVars>>
\* concurrent requests on a session act on the sessions and their own state
notTurns == <<svcVars, seqVars, concVars, mergeVars, ctxVars, queryVars,
              next_sid, sess_last, created_by,
    ingestVars, isoVars>>

NoneIndex == [d |-> 0, rows |-> << >>]
IsNone(ix) == ix.d = 0
ntotal(ix) == Len(ix.rows)

\* the service state the helpers below transform
Svc(ix, f, m) == [index |-> ix, index_file |-> f, faiss_mappings |-> m]
Cur == Svc(index, index_file, faiss_mappings)

\* faiss.IndexIDMap(faiss.IndexFlatIP(dim))
NewIndex(dim) == [d |-> dim, rows |-> << >>]

\* the file is removed and the global replaced by an empty index
reset_index(s, target_dim) ==
    [s EXCEPT !.index_file = << >>, !.index = NewIndex(target_dim)]

\* variant of ensure_index_dim that resets whatever allow_reset says
ensure_index_dim_AnyReset(s, target_dim, allow_reset) ==
    IF target_dim <= 0 THEN [status |-> 400, s |-> s]
    ELSE IF ~IsNone(s.index) /\ s.index.d = target_dim THEN [status |-> 200, s |-> s]
    ELSE [status |-> 200, s |-> reset_index(s, target_dim)]

\* variant of ensure_index_dim that resets only when allow_reset is given
ensure_index_dim_NoIdleReset(s, target_dim, allow_reset) ==
    IF target_dim <= 0 THEN [status |-> 400, s |-> s]
    ELSE IF IsNone(s.index) THEN [status |-> 200, s |-> reset_index(s, target_dim)]
    ELSE IF s.index.d = target_dim THEN [status |-> 200, s |-> s]
    ELSE IF allow_reset
         THEN [status |-> 200, s |-> reset_index(s, target_dim)]
    ELSE [status |-> 500, s |-> s]

\* returns [status, s]: 200 when the handler goes on, else the HTTP error
ensure_index_dim(s, target_dim, allow_reset) ==
    IF target_dim <= 0 THEN [status |-> 400, s |-> s]
    ELSE IF IsNone(s.index) THEN [status |-> 200, s |-> reset_index(s, target_dim)]
    ELSE IF s.index.d = target_dim THEN [status |-> 200, s |-> s]
    ELSE IF allow_reset \/ ntotal(s.index) = 0
         THEN [status |-> 200, s |-> reset_index(s, target_dim)]
    ELSE [status |-> 500, s |-> s]


(***************************************************************************)
(* upsert                                                                  *)
(***************************************************************************)
\* the mapping document built for one chunk of the payload
MappingOf(payload, c) ==
    [_id |-> chunkid_to_int64(c.chunk_id), chunk_id |-> c.chunk_id,
     doc_id |-> payload.doc_id, user_id |-> payload.user_id]

\* faiss_mappings.replace_one({"_id": mapping["_id"]}, mapping, upsert=True)
replace_one(coll, mapping) ==
    {x \in coll : x._id # mapping._id} \cup {mapping}

RECURSIVE ReplaceAll(_, _, _)
ReplaceAll(coll, payload, chunks) ==
    IF chunks = << >> THEN coll
    ELSE ReplaceAll(replace_one(coll, MappingOf(payload, Head(chunks))),
                    payload, Tail(chunks))

\* the first loop of upsert: ensure_index_dim(..., allow_reset=True) for
\* every chunk in turn; stops at the first HTTPException
RECURSIVE UpsertReconcile(_, _)
UpsertReconcile(s, chunks) ==
    IF chunks = << >> THEN [status |-> 200, s |-> s]
    ELSE LET r == ensure_index_dim(s, Len(Head(chunks).embedding), TRUE)
         IN  IF r.status # 200 THEN r ELSE UpsertReconcile(r.s, Tail(chunks))

\* np.vstack(vecs) raises ValueError on an empty list and on rows of
\* different lengths
VstackOk(chunks) ==
    /\ chunks # << >>
    /\ \A i, j \in 1..Len(chunks) :
          Len(chunks[i].embedding) = Len(chunks[j].embedding)

\* the rows add_with_ids receives: normalised vectors with their int ids
RowsOf(chunks) ==
    [i \in 1..Len(chunks) |->
        [id |-> chunkid_to_int64(chunks[i].chunk_id),
         vec |-> normalize_L2(chunks[i].embedding)]]

\* IndexIDMap.add_with_ids appends; it does not look for an id already there
add_with_ids(ix, rows) == [ix EXCEPT !.rows = @ \o rows]

\* faiss.write_index(index, str(INDEX_FILE))
write_index(s) == [s EXCEPT !.index_file = <<s.index>>]

\* the whole handler: [status, s, inserted]
upsert(s, payload) ==
    LET r == UpsertReconcile(s, payload.chunks)
    IN  IF r.status # 200
        THEN [status |-> r.status, s |-> r.s, inserted |-> 0]
        ELSE LET s1 == [r.s EXCEPT !.faiss_mappings =
                           ReplaceAll(@, payload, payload.chunks)]
             IN  IF ~VstackOk(payload.chunks)
                 THEN [status |-> 500, s |-> s1, inserted |-> 0]
                 ELSE [status |-> 200,
                       s |-> write_index([s1 EXCEPT !.index =
                                add_with_ids(@, RowsOf(payload.chunks))]),
                       inserted |-> Len(payload.chunks)]

(***************************************************************************)
(* search                                                                  *)
(***************************************************************************)
Score(ix, q, i) == InnerProduct(q, ix.rows[i].vec)

\* IndexFlatIP.search: the k rows of largest inner product, best first
\* (rows of equal score in insertion order); fewer when ntotal < k
RECURSIVE TopK(_, _, _, _)
TopK(ix, q, k, taken) ==
    LET cand == (1..ntotal(ix)) \ taken
    IN  IF k = 0 \/ cand = {} THEN << >>
        ELSE LET best == CHOOSE i \in cand : \A j \in cand :
                             \/ Score(ix, q, i) > Score(ix, q, j)
                             \/ Score(ix, q, i) = Score(ix, q, j) /\ i <= j
             IN  <<[score |-> Score(ix, q, best), id |-> ix.rows[best].id]>>
                 \o TopK(ix, q, k - 1, taken \cup {best})

index_search(ix, q, k) == TopK(ix, q, k, {})

\* faiss_mappings.find_one({"_id": id}) as a set: empty when there is none
find_one(coll, id) == {m \in coll : m._id = id}

\* variant of OwnerDropped that never filters
OwnerDropped_Never(req_user, mapping) == FALSE

\* line 125: the hit is dropped when a filter is given and the owner differs
OwnerDropped(req_user, mapping) ==
    req_user # NoUser /\ mapping.user_id # req_user

RECURSIVE Resolve(_, _, _)
Resolve(hits, coll, req_user) ==
    IF hits = << >> THEN << >>
    ELSE LET h == Head(hits)
             found == find_one(coll, h.id)
             rest == Resolve(Tail(hits), coll, req_user)
         IN  IF found = {} THEN rest
             ELSE LET mapping == CHOOSE m \in found : TRUE
                  IN  IF OwnerDropped(req_user, mapping) THEN rest
                      ELSE <<[chunk_id |-> mapping.chunk_id,
                              doc_id |-> mapping.doc_id,
                              score |-> h.score]>> \o rest

\* the whole handler: [status, s, results]
search(s, req) ==
    LET r == ensure_index_dim(s, Len(req.embedding), FALSE)
    IN  IF r.status # 200
        THEN [status |-> r.status, s |-> r.s, results |-> << >>]
        ELSE [status |-> 200, s |-> r.s,
              results |-> Resolve(
                  index_search(r.s.index, normalize_L2(req.embedding), req.top_k),
                  r.s.faiss_mappings, req.user_id)]

(***************************************************************************)
(* delete                                                                  *)
(***************************************************************************)
\* faiss_mappings.find({"doc_id": doc_id})
find_by_doc(coll, doc_id) == {m \in coll : m.doc_id = doc_id}

\* IndexIDMap.remove_ids: every row whose id is selected goes
remove_ids(ix, ids) ==
    [ix EXCEPT !.rows = SelectSeq(@, LAMBDA row : row.id \notin ids)]

\* the whole handler: [status, s, deleted]
delete(s, doc_id) ==
    LET mappings == find_by_doc(s.faiss_mappings, doc_id)
        ids_to_remove == {m._id : m \in mappings}
        s1 == IF ~IsNone(s.index) /\ ntotal(s.index) > 0
              THEN write_index([s EXCEPT !.index = remove_ids(@, ids_to_remove)])
              ELSE s
    IN  IF mappings = {}
        THEN [status |-> 200, s |-> s, deleted |-> 0]
        ELSE [status |-> 200,
              s |-> [s1 EXCEPT !.faiss_mappings =
                        @ \ find_by_doc(@, doc_id)],
              deleted |-> Cardinality(find_by_doc(s1.faiss_mappings, doc_id))]

(***************************************************************************)
(* The service handling one request at a time                              *)
(***************************************************************************)
\* payload["chunks"] for one document: up to MaxBatch chunks of the
\* document, each chunk id once, each with any embedding
Batches(doc) ==
    {b \in UNION {[1..n -> [chunk_id : ChunkIdsOf(doc), embedding : Embeddings]]
                    : n \in 0..MaxBatch} :
        \A i, j \in 1..Len(b) : i # j => b[i].chunk_id # b[j].chunk_id}

Payloads ==
    UNION {[doc_id : {d}, user_id : Users, chunks : Batches(d)] : d \in Docs}

SearchReqs == [embedding : Embeddings, top_k : 1..MaxK, user_id : Users \cup {NoUser}]

Install(s) ==
    /\ index' = s.index
    /\ index_file' = s.index_file
    /\ faiss_mappings' = s.faiss_mappings

\* request threads (FastAPI runs the sync handlers on a thread pool)
NumProcs == 2
Procs == 1..NumProcs
IdleProc == [pc |-> "idle", req |-> [op |-> "none"], i |-> 0, hits |-> << >>,
             ids_to_remove |-> {}, results |-> << >>, status |-> 0, n |-> 0]

\* values of the environment variable EMBED_DIM; 0 stands for unset
EmbedDims == {0, 1, 2}

\* load_index at import: [index, index_file] from the file found and EMBED_DIM
load_index(file, EMBED_DIM) ==
    IF file # << >>
    THEN LET loaded == file[1]
             configured_dim == IF EMBED_DIM # 0 THEN EMBED_DIM ELSE loaded.d
         IN  IF loaded.d # configured_dim
             THEN [index |-> NewIndex(configured_dim), index_file |-> << >>]
             ELSE [index |-> loaded, index_file |-> file]
    ELSE [index |-> IF EMBED_DIM <= 0 THEN NoneIndex ELSE NewIndex(EMBED_DIM),
          index_file |-> file]

\* the service started on an empty /data and an empty database
InitService ==
    /\ \E EMBED_DIM \in EmbedDims :
          /\ index = load_index(<< >>, EMBED_DIM).index
          /\ index_file = load_index(<< >>, EMBED_DIM).index_file
    /\ faiss_mappings = {}

\* the service as the session and merge specifications leave it
IdleService ==
    /\ index = NoneIndex
    /\ index_file = << >>
    /\ faiss_mappings = {}

InitSeq == last = [op |-> "none"] /\ deleted_docs = {}

InitConc ==
    /\ procs = [p \in Procs |-> IdleProc]
    /\ base = Svc(NoneIndex, << >>, {})
    /\ round = 0

\* SessionManager.__init__ on an empty database
InitSess ==
    /\ sessions = {}
    /\ next_sid = 0
    /\ sess_last = [op |-> "none"]
    /\ created_by = {}
    /\ deleted_sids = {}

NoMerge == [dense |-> << >>, sparse |-> << >>]
IdleMerge == merge_in = NoMerge /\ merge_out = [status |-> 0]

NoCtx == [session_id |-> 0, user_id |-> NoUser, max_history |-> 0]
IdleCtx == ctx_in = NoCtx /\ ctx_out = [done |-> FALSE]

\* the parts of the state a specification does not act on
IdleQuery == q_last = [op |-> "none"] /\ q_count = 0

\* requests of the API process (or of several workers) in flight
NumClients == 2
Clients == 1..NumClients
IdleClient == [pc |-> "idle"]
IdleTurns == clients = [p \in Clients |-> IdleClient] /\ turn_log = << >>

\* no document uploaded, no ingestion job and no delete request
NoJob == [pc |-> "none"]
NoDel == [pc |-> "idle"]
IdleIngest ==
    /\ documents = {} /\ chunks_coll = << >>
    /\ jobs = [d \in Docs |-> NoJob] /\ dels = [d \in Docs |-> NoDel]
    /\ twin = [svc |-> Svc(NoneIndex, << >>, {}), chunks |-> << >>]
    /\ iso_last = [op |-> "none"]

IdleRest == IdleMerge /\ IdleCtx /\ IdleQuery /\ IdleTurns /\ IdleIngest

Init == InitService /\ InitSeq /\ InitConc /\ InitSess /\ IdleRest

\* the API process alone: the vector service plays no part
InitApi == IdleService /\ InitSeq /\ InitConc /\ InitSess /\ IdleRest

Upsert ==
    \E payload \in Payloads :
        /\ ntotal(index) + Len(payload.chunks) <= MaxVecs
        /\ LET r == upsert(Cur, payload)
           IN  /\ Install(r.s)
               /\ last' = [op |-> "upsert", status |-> r.status,
                           chunks |-> payload.chunks, inserted |-> r.inserted]
               /\ deleted_docs' = IF r.status = 200
                                  THEN deleted_docs \ {payload.doc_id}
                                  ELSE deleted_docs
               /\ UNCHANGED notSeq

Search ==
    \E req \in SearchReqs :
        LET r == search(Cur, req)
        IN  /\ Install(r.s)
            /\ last' = [op |-> "search", status |-> r.status,
                        dim |-> Len(req.embedding), user_id |-> req.user_id,
                        results |-> r.results]
            /\ UNCHANGED <<deleted_docs, notSeq>>

Delete ==
    \E doc_id \in Docs :
        LET r == delete(Cur, doc_id)
        IN  /\ Install(r.s)
            /\ last' = [op |-> "delete", status |-> r.status,
                        doc_id |-> doc_id, deleted |-> r.deleted]
            /\ deleted_docs' = deleted_docs \cup {doc_id}
            /\ UNCHANGED notSeq

Next == Upsert \/ Search \/ Delete

Spec == Init /\ [][Next]_vars

(***************************************************************************)
(* Properties of the service handling one request at a time (Spec)         *)
(***************************************************************************)
IndexKeys(ix) == {ix.rows[i].id : i \in 1..ntotal(ix)}
MappingKeys(coll) == {m._id : m \in coll}
VecCount(ix, id) == Cardinality({i \in 1..ntotal(ix) : ix.rows[i].id = id})
ChunkIdsIn(chunks) == {chunks[i].chunk_id : i \in 1..Len(chunks)}
DimsIn(chunks) == {Len(chunks[i].embedding) : i \in 1..Len(chunks)}

\* C1: in every state between requests the int_keys holding a vector are
\* exactly the int_keys holding a mapping entry, each with one vector and
\* one mapping entry.
C1_IndexMatchesMappings ==
    /\ IndexKeys(index) = MappingKeys(faiss_mappings)
    /\ \A k \in IndexKeys(index) :
          /\ VecCount(index, k) = 1
          /\ Cardinality(find_one(faiss_mappings, k)) = 1

\* C2: an upsert carrying a vector whose length differs from the active
\* dimensionality, on an index holding vectors, fails and leaves every
\* stored vector in place.
C2_UpsertMismatchRefused ==
    [][(/\ last'.op = "upsert"
        /\ ntotal(index) > 0
        /\ \E dim \in DimsIn(last'.chunks) : dim # index.d)
       => (last'.status # 200 /\ index' = index)]_vars

\* C3: upserting a chunk_id that already has a vector, with a different
\* embedding, leaves one vector and one mapping entry for it, and the
\* vector count does not grow.
C3_UpsertReplaces ==
    [][(/\ last'.op = "upsert"
        /\ last'.status = 200
        /\ Len(last'.chunks) = 1
        /\ LET c == last'.chunks[1]
           IN  \E i \in 1..ntotal(index) :
                   /\ index.rows[i].id = chunkid_to_int64(c.chunk_id)
                   /\ index.rows[i].vec # normalize_L2(c.embedding))
       => LET c == last'.chunks[1]
          IN  /\ VecCount(index', chunkid_to_int64(c.chunk_id)) = 1
              /\ Cardinality({m \in faiss_mappings' : m.chunk_id = c.chunk_id}) = 1
              /\ ntotal(index') <= ntotal(index)]_vars

\* C4: delete(doc_id) returns the number of entries the document had, the
\* vector count drops by exactly that number, and no search returns the
\* document until it is upserted again.
C4_DeleteRemovesDocument ==
    [][/\ (last'.op = "delete" /\ last' # last) =>
            LET n == Cardinality(find_by_doc(faiss_mappings, last'.doc_id))
            IN  /\ last'.deleted = n
                /\ ntotal(index) - ntotal(index') = n
       /\ last'.op = "search" =>
            \A i \in 1..Len(last'.results) :
                last'.results[i].doc_id \notin deleted_docs']_vars

\* C5: a search with owner filter U returns no entry whose mapping has an
\* owner other than U.
C5_OwnerFilter ==
    (last.op = "search" /\ last.user_id # NoUser) =>
        \A i \in 1..Len(last.results) :
            LET found == find_one(faiss_mappings,
                                  chunkid_to_int64(last.results[i].chunk_id))
            IN  /\ found # {}
                /\ \A m \in found : m.user_id = last.user_id

\* a filtered search returned a hit while the index also holds a vector of
\* another owner
C5_Witness ==
    /\ last.op = "search"
    /\ last.user_id # NoUser
    /\ last.results # << >>
    /\ \E m \in faiss_mappings :
          m.user_id # last.user_id /\ m._id \in IndexKeys(index)

\* C6: a search whose query length differs from the active dimensionality
\* of an index holding vectors fails (500 for a positive length, 400 for
\* an empty vector) and changes nothing.
C6_SearchMismatchFails ==
    [][(/\ last'.op = "search"
        /\ ntotal(index) > 0
        /\ last'.dim # index.d)
       => (/\ last'.status = IF last'.dim > 0 THEN 500 ELSE 400
           /\ last'.results = << >>
           /\ UNCHANGED svcVars)]_vars

\* a search of a positive, mismatching length was refused on a non-empty index
C6_Witness ==
    /\ last.op = "search"
    /\ last.status = 500
    /\ last.dim > 0
    /\ ntotal(index) > 0
    /\ last.dim # index.d
    /\ index_file = <<index>>

(***************************************************************************)
(* The service with several requests in flight (SpecConc).  No handler     *)
(* takes a lock; each step below is one statement of a handler acting on   *)
(* the globals as they are at that moment.                                 *)
(***************************************************************************)
\* largest number of bursts of concurrent requests
MaxRounds == 2

ConcPayloads ==
    {[doc_id |-> "d1", user_id |-> "u1",
      chunks |-> <<[chunk_id |-> "d1__0", embedding |-> <<2>>]>>],
     [doc_id |-> "d1", user_id |-> "u2",
      chunks |-> <<[chunk_id |-> "d1__0", embedding |-> <<-3>>]>>],
     [doc_id |-> "d1", user_id |-> "u1",
      chunks |-> <<[chunk_id |-> "d1__0", embedding |-> <<2>>],
                   [chunk_id |-> "d1__1", embedding |-> <<-3>>]>>],
     [doc_id |-> "d2", user_id |-> "u2",
      chunks |-> <<[chunk_id |-> "d2__0", embedding |-> <<0, 2>>]>>]}

ConcSearchReqs ==
    [embedding : {<<2>>, <<0, 2>>}, top_k : {MaxK}, user_id : {NoUser, "u2"}]

ConcRequests ==
    {[op |-> "upsert", payload |-> pl] : pl \in ConcPayloads}
    \cup {[op |-> "search", req |-> r] : r \in ConcSearchReqs}
    \cup {[op |-> "delete", doc_id |-> d] : d \in {"d1"}}

InFlight(p) == procs[p].pc \notin {"idle", "done"}
Quiescent == \A p \in Procs : ~InFlight(p)
Mutating(rq) == rq.op \in {"upsert", "delete"}

\* the first statement of each handler
EntryPc(rq) ==
    CASE rq.op = "upsert" -> IF rq.payload.chunks = << >> THEN "u_add" ELSE "u_ensure"
      [] rq.op = "search" -> "s_ensure"
      [] OTHER -> "d_find"

Finish(pr, status) == [pr EXCEPT !.pc = "done", !.status = status]

\* a request arrives; the first of a burst records the state it starts from
Start(p) ==
    \E rq \in ConcRequests :
        /\ IF Quiescent THEN round < MaxRounds ELSE procs[p].pc = "idle"
        /\ IF Quiescent
           THEN /\ procs' = [q \in Procs |->
                     IF q = p THEN [IdleProc EXCEPT !.pc = EntryPc(rq),
                                                    !.req = rq, !.i = 1]
                     ELSE IdleProc]
                /\ base' = Cur
                /\ round' = round + 1
           ELSE /\ procs' = [procs EXCEPT ![p] =
                     [IdleProc EXCEPT !.pc = EntryPc(rq), !.req = rq, !.i = 1]]
                /\ UNCHANGED <<base, round>>
        /\ UNCHANGED <<svcVars, notConc>>

\* upsert, line 82: ensure_index_dim for chunk i
UEnsure(p) ==
    LET pr == procs[p]
        chunks == pr.req.payload.chunks
        r == ensure_index_dim(Cur, Len(chunks[pr.i].embedding), TRUE)
    IN  /\ pr.pc = "u_ensure"
        /\ Install(r.s)
        /\ procs' = [procs EXCEPT ![p] =
              IF r.status # 200 THEN Finish(pr, r.status)
              ELSE IF pr.i < Len(chunks) THEN [pr EXCEPT !.i = @ + 1]
              ELSE [pr EXCEPT !.pc = "u_map", !.i = 1]]
        /\ UNCHANGED <<base, round, notConc>>

\* upsert, lines 95-100: replace_one for mapping i
UMap(p) ==
    LET pr == procs[p]
        chunks == pr.req.payload.chunks
    IN  /\ pr.pc = "u_map"
        /\ faiss_mappings' =
              replace_one(faiss_mappings, MappingOf(pr.req.payload, chunks[pr.i]))
        /\ procs' = [procs EXCEPT ![p] =
              IF pr.i < Len(chunks) THEN [pr EXCEPT !.i = @ + 1]
              ELSE [pr EXCEPT !.pc = "u_add"]]
        /\ UNCHANGED <<index, index_file, base, round, notConc>>

\* upsert, lines 102-103: vstack, then add_with_ids on the global index,
\* which refuses rows of another width than the index it finds
UAdd(p) ==
    LET pr == procs[p]
        chunks == pr.req.payload.chunks
        ok == /\ VstackOk(chunks)
              /\ index.d = Len(chunks[1].embedding)
    IN  /\ pr.pc = "u_add"
        /\ index' = IF ok THEN add_with_ids(index, RowsOf(chunks)) ELSE index
        /\ procs' = [procs EXCEPT ![p] =
              IF ok THEN [pr EXCEPT !.pc = "u_write"] ELSE Finish(pr, 500)]
        /\ UNCHANGED <<index_file, faiss_mappings, base, round, notConc>>

\* upsert, lines 104-105
UWrite(p) ==
    LET pr == procs[p]
    IN  /\ pr.pc = "u_write"
        /\ Install(write_index(Cur))
        /\ procs' = [procs EXCEPT ![p] =
              Finish([pr EXCEPT !.n = Len(pr.req.payload.chunks)], 200)]
        /\ UNCHANGED <<base, round, notConc>>

\* search, line 115
SEnsure(p) ==
    LET pr == procs[p]
        r == ensure_index_dim(Cur, Len(pr.req.req.embedding), FALSE)
    IN  /\ pr.pc = "s_ensure"
        /\ Install(r.s)
        /\ procs' = [procs EXCEPT ![p] =
              IF r.status # 200 THEN Finish(pr, r.status)
              ELSE [pr EXCEPT !.pc = "s_search"]]
        /\ UNCHANGED <<base, round, notConc>>

\* search, line 117: index.search on the global index, which refuses a
\* query of another width
SSearch(p) ==
    LET pr == procs[p]
        rq == pr.req.req
        ok == index.d = Len(rq.embedding)
        hits == index_search(index, normalize_L2(rq.embedding), rq.top_k)
    IN  /\ pr.pc = "s_search"
        /\ procs' = [procs EXCEPT ![p] =
              IF ~ok THEN Finish(pr, 500)
              ELSE IF hits = << >> THEN Finish(pr, 200)
              ELSE [pr EXCEPT !.pc = "s_resolve", !.hits = hits]]
        /\ UNCHANGED <<svcVars, base, round, notConc>>

\* search, lines 119-134: one turn of the loop over the hits
SResolve(p) ==
    LET pr == procs[p]
        one == Resolve(<<Head(pr.hits)>>, faiss_mappings, pr.req.req.user_id)
        nxt == [pr EXCEPT !.hits = Tail(@), !.results = @ \o one]
    IN  /\ pr.pc = "s_resolve"
        /\ procs' = [procs EXCEPT ![p] =
              IF nxt.hits = << >> THEN Finish(nxt, 200) ELSE nxt]
        /\ UNCHANGED <<svcVars, base, round, notConc>>

\* delete, lines 144-150: the mappings found decide the ids to remove
DFind(p) ==
    LET pr == procs[p]
        mappings == find_by_doc(faiss_mappings, pr.req.doc_id)
    IN  /\ pr.pc = "d_find"
        /\ procs' = [procs EXCEPT ![p] =
              IF mappings = {} THEN Finish(pr, 200)
              ELSE [pr EXCEPT !.pc = "d_remove",
                              !.ids_to_remove = {m._id : m \in mappings}]]
        /\ UNCHANGED <<svcVars, base, round, notConc>>

\* delete, lines 153-154
DRemove(p) ==
    LET pr == procs[p]
        go == ~IsNone(index) /\ ntotal(index) > 0
    IN  /\ pr.pc = "d_remove"
        /\ index' = IF go THEN remove_ids(index, pr.ids_to_remove) ELSE index
        /\ procs' = [procs EXCEPT ![p] =
              [pr EXCEPT !.pc = IF go THEN "d_write" ELSE "d_delete_many"]]
        /\ UNCHANGED <<index_file, faiss_mappings, base, round, notConc>>

\* delete, line 155
DWrite(p) ==
    LET pr == procs[p]
    IN  /\ pr.pc = "d_write"
        /\ Install(write_index(Cur))
        /\ procs' = [procs EXCEPT ![p] = [pr EXCEPT !.pc = "d_delete_many"]]
        /\ UNCHANGED <<base, round, notConc>>

\* delete, lines 158-160: delete_many by doc_id, whatever it matches now
DDeleteMany(p) ==
    LET pr == procs[p]
        gone == find_by_doc(faiss_mappings, pr.req.doc_id)
    IN  /\ pr.pc = "d_delete_many"
        /\ faiss_mappings' = faiss_mappings \ gone
        /\ procs' = [procs EXCEPT ![p] =
              Finish([pr EXCEPT !.n = Cardinality(gone)], 200)]
        /\ UNCHANGED <<index, index_file, base, round, notConc>>

NextConc ==
    \E p \in Procs :
        \/ Start(p)
        \/ UEnsure(p) \/ UMap(p) \/ UAdd(p) \/ UWrite(p)
        \/ SEnsure(p) \/ SSearch(p) \/ SResolve(p)
        \/ DFind(p) \/ DRemove(p) \/ DWrite(p) \/ DDeleteMany(p)

SpecConc == Init /\ [][NextConc]_vars

\* what one whole handler makes of a service state
Apply(s, rq) ==
    CASE rq.op = "upsert" -> upsert(s, rq.payload).s
      [] rq.op = "search" -> search(s, rq.req).s
      [] rq.op = "delete" -> delete(s, rq.doc_id).s
      [] OTHER -> s

\* the states the requests of P can leave when run one after another
RECURSIVE SerialOutcomes(_, _)
SerialOutcomes(s, P) ==
    IF P = {} THEN {s}
    ELSE UNION {SerialOutcomes(Apply(s, procs[p].req), P \ {p}) : p \in P}

Burst == {p \in Procs : procs[p].pc # "idle"}

\* C7: when the mutating requests of a burst have all completed, the
\* index, the mapping table and the snapshot are those of the same
\* requests run in some serial order.
C7_MutationsSerialized ==
    (/\ Quiescent
     /\ \A p \in Burst : Mutating(procs[p].req))
    => Cur \in SerialOutcomes(base, Burst)

\* C8: a search that ran beside one upsert or delete returns what a search
\* run wholly before or wholly after that mutation returns.
C8_SearchSeesNoPartialWrite ==
    \A p, q \in Procs :
        (/\ procs[p].pc = "done"
         /\ procs[p].req.op = "search"
         /\ Burst = {p, q}
         /\ Mutating(procs[q].req))
        => LET before == search(base, procs[p].req.req)
               after == search(Apply(base, procs[q].req), procs[p].req.req)
               got == [status |-> procs[p].status, results |-> procs[p].results]
           IN  got \in {[status |-> before.status, results |-> before.results],
                        [status |-> after.status, results |-> after.results]}

(***************************************************************************)
(* Session manager (SpecSess)                                              *)
(***************************************************************************)
\* largest number of sessions ever created
MaxSessions == 2
\* longest conversation_history before add_message is no longer offered
MaxHistory == 1

\* str(uuid.uuid4()): a fresh identifier, here the next natural number
SessionIds == 1..MaxSessions
\* initial_query=None
NoQuery == "None"
\* `if initial_query:` is false for None and for the empty string
Truthy(text) == text # NoQuery /\ text # ""
Queries == {"q1"}
Answers == {"a1"}
\* sources=None / doc_ids=None (and the empty list) are falsy
NoList == << >>
\* the arguments the query endpoint gives add_message: a user turn, and an
\* assistant turn without or with sources and their doc_ids
MessageArgs ==
    {[role |-> "user", content |-> q, sources |-> NoList, doc_ids |-> NoList]
        : q \in Queries}
    \cup {[role |-> "assistant", content |-> a, sources |-> NoList,
           doc_ids |-> NoList] : a \in Answers}
    \cup {[role |-> "assistant", content |-> a,
           sources |-> <<[doc_id |-> "d1", chunk_id |-> "d1__0", score |-> 1]>>,
           doc_ids |-> <<"d1">>] : a \in Answers}

\* the message add_message and create_session build (timestamps left out)
Message(role, content, sources) ==
    [role |-> role, content |-> content, sources |-> sources]

\* the document create_session inserts
SessionDoc(session_id, user_id, initial_query) ==
    [session_id |-> session_id,
     user_id |-> user_id,
     conversation_history |->
        IF Truthy(initial_query)
        THEN <<Message("user", initial_query, NoList)>> ELSE << >>,
     metadata |-> [total_queries |-> IF Truthy(initial_query) THEN 1 ELSE 0,
                   document_references |-> << >>]]

create_session(coll, session_id, user_id, initial_query) ==
    coll \cup {SessionDoc(session_id, user_id, initial_query)}

\* variant of get_session that looks the session up by its id alone
get_session_AnyOwner(coll, session_id, user_id) ==
    {s \in coll : s.session_id = session_id}

\* sessions.find_one({"session_id": ..., "user_id": ...}) as a set
get_session(coll, session_id, user_id) ==
    {s \in coll : s.session_id = session_id /\ s.user_id = user_id}

\* $addToSet with $each: the ids not yet listed are appended in order
RECURSIVE AddToSet(_, _)
AddToSet(refs, doc_ids) ==
    IF doc_ids = << >> THEN refs
    ELSE AddToSet(IF \E i \in 1..Len(refs) : refs[i] = Head(doc_ids)
                  THEN refs ELSE Append(refs, Head(doc_ids)),
                  Tail(doc_ids))

\* variant of Updated that sets conversation_history instead of pushing
Updated_SetHistory(sess, role, content, sources, doc_ids) ==
    [sess EXCEPT
        !.conversation_history = <<Message(role, content, sources)>>,
        !.metadata.total_queries = IF role = "user" THEN @ + 1 ELSE @,
        !.metadata.document_references = AddToSet(@, doc_ids)]

\* variant of Updated that counts every turn as a query
Updated_CountsEveryTurn(sess, role, content, sources, doc_ids) ==
    [sess EXCEPT
        !.conversation_history = Append(@, Message(role, content, sources)),
        !.metadata.total_queries = @ + 1,
        !.metadata.document_references = AddToSet(@, doc_ids)]

\* the update add_message sends, applied to the matched session
Updated(sess, role, content, sources, doc_ids) ==
    [sess EXCEPT
        !.conversation_history = Append(@, Message(role, content, sources)),
        !.metadata.total_queries = IF role = "user" THEN @ + 1 ELSE @,
        !.metadata.document_references = AddToSet(@, doc_ids)]

\* variant of add_message whose filter is the session_id alone
add_message_AnyOwner(coll, session_id, user_id, role, content, sources, doc_ids) ==
    LET matched == {s \in coll : s.session_id = session_id}
    IN  [coll |-> (coll \ matched) \cup
                  {Updated(sess, role, content, sources, doc_ids) : sess \in matched},
         ok |-> matched # {}]

\* update_one on the filter {session_id, user_id}: [coll, ok]
add_message(coll, session_id, user_id, role, content, sources, doc_ids) ==
    LET matched == {s \in coll : s.session_id = session_id /\ s.user_id = user_id}
    IN  [coll |-> (coll \ matched) \cup
                  {Updated(sess, role, content, sources, doc_ids) : sess \in matched},
         ok |-> matched # {}]

\* variant of delete_session that reports the delete and keeps the document
delete_session_KeepsDoc(coll, session_id, user_id) ==
    [coll |-> coll,
     ok |-> {s \in coll : s.session_id = session_id /\ s.user_id = user_id} # {}]

\* delete_one on the filter {session_id, user_id}: [coll, ok]
delete_session(coll, session_id, user_id) ==
    LET matched == {s \in coll : s.session_id = session_id /\ s.user_id = user_id}
    IN  [coll |-> coll \ matched, ok |-> matched # {}]

CreateSession ==
    \E user_id \in Users, initial_query \in Queries \cup {NoQuery} :
        /\ next_sid < MaxSessions
        /\ next_sid' = next_sid + 1
        /\ sessions' = create_session(sessions, next_sid + 1, user_id, initial_query)
        /\ created_by' = created_by \cup {<<next_sid + 1, user_id>>}
        /\ sess_last' = [op |-> "create", session_id |-> next_sid + 1,
                         user_id |-> user_id]
        /\ UNCHANGED <<deleted_sids, notSess>>

GetSession ==
    \E session_id \in SessionIds, user_id \in Users :
        /\ sess_last' = [op |-> "get", session_id |-> session_id,
                         user_id |-> user_id,
                         found |-> get_session(sessions, session_id, user_id)]
        /\ UNCHANGED <<sessions, next_sid, created_by, deleted_sids, notSess>>

AddMessage ==
    \E session_id \in SessionIds, user_id \in Users,
       msg \in MessageArgs :
        LET r == add_message(sessions, session_id, user_id, msg.role,
                             msg.content, msg.sources, msg.doc_ids)
        IN  /\ \A s \in sessions : s.session_id = session_id =>
                   Len(s.conversation_history) < MaxHistory
            /\ sessions' = r.coll
            /\ sess_last' = [op |-> "add_message", session_id |-> session_id,
                             user_id |-> user_id, ok |-> r.ok]
            /\ UNCHANGED <<next_sid, created_by, deleted_sids, notSess>>

DeleteSession ==
    \E session_id \in SessionIds, user_id \in Users :
        LET r == delete_session(sessions, session_id, user_id)
        IN  /\ sessions' = r.coll
            /\ deleted_sids' = IF r.ok THEN deleted_sids \cup {session_id}
                               ELSE deleted_sids
            /\ sess_last' = [op |-> "delete", session_id |-> session_id,
                             user_id |-> user_id, ok |-> r.ok]
            /\ UNCHANGED <<next_sid, created_by, notSess>>

NextSess == CreateSession \/ GetSession \/ AddMessage \/ DeleteSession

SpecSess == InitApi /\ [][NextSess]_vars

\* C9: get(session_id, u2) finds nothing for every owner u2 other than the
\* creator, and get(session_id, creator) returns the session, with that id
\* and owner, until it is deleted.
C9_SessionIsolation ==
    sess_last.op = "get" =>
        LET sid == sess_last.session_id
            u == sess_last.user_id
        IN  /\ <<sid, u>> \notin created_by => sess_last.found = {}
            /\ (<<sid, u>> \in created_by /\ sid \notin deleted_sids) =>
                  /\ Cardinality(sess_last.found) = 1
                  /\ \A s \in sess_last.found :
                        s.session_id = sid /\ s.user_id = u

\* another owner asked for a live session that has history, and got nothing
C9_Witness ==
    /\ sess_last.op = "get"
    /\ sess_last.found = {}
    /\ \E s \in sessions :
          /\ s.session_id = sess_last.session_id
          /\ s.user_id # sess_last.user_id
          /\ s.conversation_history # << >>
    /\ deleted_sids # {}

(***************************************************************************)
(* The merge step of the query endpoint (SpecMerge)                        *)
(***************************************************************************)
\* longest dense and longest sparse result list
MaxHits == 2
\* largest raw score of a hit
MaxScore == 2

MergeChunkIds == {"d1__0", "d1__1"}
Scores == 1..MaxScore

\* a hit is [chunk_id, src, score_is, score]: score_is tells whether the
\* "score" key holds a float, holds None, or is absent (score is 0 then);
\* src stands for the rest of the document (doc_id, text)
Hit(cid, src, score_is, score) ==
    [chunk_id |-> cid, src |-> src, score_is |-> score_is, score |-> score]

\* faiss_search: every hit has a float score
DenseHits == {Hit(c, "dense", "float", v) : c \in MergeChunkIds, v \in Scores}
\* the $text query projects textScore into "score"
TextIndexHits == {Hit(c, "sparse", "float", v) : c \in MergeChunkIds, v \in Scores}
\* the regex fallback projects no score
RegexHits == {Hit(c, "sparse", "absent", 0) : c \in MergeChunkIds}

SeqsUpTo(S, n) == UNION {[1..k -> S] : k \in 0..n}

\* text_search, lines 57-59: doc.setdefault("score", None) on every result
setdefault_score(results) ==
    [i \in 1..Len(results) |->
        IF results[i].score_is = "absent"
        THEN [results[i] EXCEPT !.score_is = "None"] ELSE results[i]]

\* the cursor of either branch of text_search (each chunk document once),
\* then the setdefault loop
TextSearchResults ==
    {setdefault_score(r) :
        r \in {c \in SeqsUpTo(TextIndexHits, MaxHits)
                       \cup SeqsUpTo(RegexHits, MaxHits) :
                  \A i, j \in 1..Len(c) :
                      i # j => c[i].chunk_id # c[j].chunk_id}}

MergeInputs ==
    [dense : SeqsUpTo(DenseHits, MaxHits), sparse : TextSearchResults]

\* h.get("score", 0): the default only when the key is absent
GetScore(h) ==
    IF h.score_is = "absent" THEN [is |-> "float", v |-> 0]
    ELSE [is |-> h.score_is, v |-> h.score]

\* a > b in Python 3: TypeError when either side is None
Greater(a, b) ==
    IF a.is = "None" \/ b.is = "None" THEN "TypeError"
    ELSE IF a.v > b.v THEN "True" ELSE "False"

\* positions of cid in the insertion-ordered dict cand_map
PosOf(cand, cid) == {i \in 1..Len(cand) : cand[i].chunk_id = cid}

\* main.py lines 82-91: the loop over dense_hits + sparse_hits, then
\* list(cand_map.values()); 500 when the comparison raises
RECURSIVE MergeLoop(_, _)
MergeLoop(cand, hits) ==
    IF hits = << >> THEN [status |-> 200, candidates |-> cand]
    ELSE LET h == Head(hits)
             at == PosOf(cand, h.chunk_id)
         IN  IF at = {} THEN MergeLoop(Append(cand, h), Tail(hits))
             ELSE LET i == CHOOSE j \in at : TRUE
                      gt == Greater(GetScore(h), GetScore(cand[i]))
                  IN  IF gt = "TypeError" THEN [status |-> 500, candidates |-> << >>]
                      ELSE IF gt = "True"
                           THEN MergeLoop([cand EXCEPT ![i] = h], Tail(hits))
                      ELSE MergeLoop(cand, Tail(hits))

merge(dense_hits, sparse_hits) == MergeLoop(<< >>, dense_hits \o sparse_hits)

InitMerge ==
    /\ IdleService /\ InitSeq /\ InitConc /\ InitSess /\ IdleCtx /\ IdleQuery
    /\ IdleTurns /\ IdleIngest
    /\ merge_in \in MergeInputs
    /\ merge_out = [status |-> 0]

MergeCandidates ==
    /\ merge_out.status = 0
    /\ merge_out' = merge(merge_in.dense, merge_in.sparse)
    /\ UNCHANGED <<merge_in, notMerge>>

NextMerge == MergeCandidates

SpecMerge == InitMerge /\ [][NextMerge]_vars

\* the score the claim compares: a hit without a score counts as 0
RawScore(h) == IF h.score_is = "float" THEN h.score ELSE 0

\* C10: the merge yields every chunk_id of the dense or sparse hits once,
\* with the first occurrence (dense before sparse) of the highest raw
\* score, for every pair of result sets, sparse hits without a score
\* included.
C10_MergeKeepsBest ==
    merge_out.status # 0 =>
        LET all == merge_in.dense \o merge_in.sparse
            cand == merge_out.candidates
        IN  /\ merge_out.status = 200
            /\ {cand[i].chunk_id : i \in 1..Len(cand)} =
               {all[i].chunk_id : i \in 1..Len(all)}
            /\ \A i \in 1..Len(cand) :
                  /\ Cardinality(PosOf(cand, cand[i].chunk_id)) = 1
                  /\ \E k \in PosOf(all, cand[i].chunk_id) :
                        /\ all[k] = cand[i]
                        /\ \A j \in PosOf(all, cand[i].chunk_id) :
                              \/ RawScore(all[j]) < RawScore(all[k])
                              \/ RawScore(all[j]) = RawScore(all[k]) /\ k <= j

(***************************************************************************)
(* build_context_prompt (SpecCtx)                                          *)
(***************************************************************************)
\* longest conversation_history given to build_context_prompt
MaxCtxHistory == 3
\* largest max_history given to build_context_prompt
MaxCtxTurns == 1

\* the session a create_session and the add_message calls msgs leave
RECURSIVE Replay(_, _)
Replay(sess, msgs) ==
    IF msgs = << >> THEN sess
    ELSE Replay(Updated(sess, Head(msgs).role, Head(msgs).content,
                        Head(msgs).sources, Head(msgs).doc_ids),
                Tail(msgs))

\* history[-limit:]
LastN(history, limit) ==
    SubSeq(history,
           IF Len(history) > limit THEN Len(history) - limit + 1 ELSE 1,
           Len(history))

\* `if limit and limit > 0` takes the slice; None and 0 are falsy
get_conversation_history(coll, session_id, user_id, limit) ==
    LET found == get_session(coll, session_id, user_id)
    IN  IF found = {} THEN << >>
        ELSE LET history == (CHOOSE s \in found : TRUE).conversation_history
             IN  IF limit # 0 /\ limit > 0 THEN LastN(history, limit)
                 ELSE history

\* str.upper() on the roles add_message is given
upper(role) ==
    CASE role = "user" -> "USER"
      [] role = "assistant" -> "ASSISTANT"
      [] OTHER -> role

\* f"{role}: {content}" as the pieces it is made of
ContextLine(msg) == <<upper(msg.role), ": ", msg.content>>

ContextHeader == <<"PREVIOUS CONVERSATION:">>
\* context_lines.append("")
ContextSeparator == <<"">>

\* the lines "\n".join puts together; << >> is the empty string
build_context_prompt(coll, session_id, user_id, max_history) ==
    LET history == get_conversation_history(coll, session_id, user_id,
                                            max_history * 2)
    IN  IF history = << >> THEN << >>
        ELSE <<ContextHeader>>
             \o [i \in 1..Len(history) |-> ContextLine(history[i])]
             \o <<ContextSeparator>>

\* one session of u1 with any history, and any call on it
InitCtx ==
    /\ IdleService /\ InitSeq /\ InitConc /\ IdleMerge /\ IdleQuery
    /\ IdleTurns /\ IdleIngest
    /\ next_sid = 1
    /\ sess_last = [op |-> "none"]
    /\ created_by = {<<1, "u1">>}
    /\ deleted_sids = {}
    /\ \E msgs \in SeqsUpTo(MessageArgs, MaxCtxHistory) :
          sessions = {Replay(SessionDoc(1, "u1", NoQuery), msgs)}
    /\ ctx_in \in [session_id : {1}, user_id : Users,
                   max_history : 0..MaxCtxTurns]
    /\ ctx_out = [done |-> FALSE]

BuildContext ==
    /\ ~ctx_out.done
    /\ ctx_out' = [done |-> TRUE,
                   lines |-> build_context_prompt(sessions, ctx_in.session_id,
                                                  ctx_in.user_id,
                                                  ctx_in.max_history)]
    /\ UNCHANGED <<ctx_in, notCtx>>

NextCtx == BuildContext

SpecCtx == InitCtx /\ [][NextCtx]_vars

\* the history of the session as the caller of ctx_in may see it
CtxHistory ==
    LET found == {s \in sessions : s.session_id = ctx_in.session_id
                                   /\ s.user_id = ctx_in.user_id}
    IN  IF found = {} THEN << >>
        ELSE (CHOOSE s \in found : TRUE).conversation_history

Min(a, b) == IF a < b THEN a ELSE b

\* C11: build_context returns the empty string when the session has no
\* history; otherwise the header, then exactly the last
\* min(len(history), 2*max_turns) entries in order as ROLE: content lines,
\* so never more than 2*max_turns entries, for every max_turns >= 0.
C11_ContextBounded ==
    ctx_out.done =>
        LET h == CtxHistory
            n == Min(Len(h), 2 * ctx_in.max_history)
            tail == SubSeq(h, Len(h) - n + 1, Len(h))
        IN  IF h = << >> THEN ctx_out.lines = << >>
            ELSE /\ ctx_out.lines = <<ContextHeader>>
                        \o [i \in 1..n |->
                              <<upper(tail[i].role), ": ", tail[i].content>>]
                        \o <<ContextSeparator>>
                 /\ Len(ctx_out.lines) - 2 <= 2 * ctx_in.max_history

(***************************************************************************)
(* The /query endpoint, one request at a time (SpecQuery)                  *)
(***************************************************************************)
\* number of /query requests in a run
MaxQueries == 2

\* session_manager.build_context_prompt(..., max_history=5)
QueryMaxHistory == 5
\* top_k = ranked[:3]
TopSources == 3

\* req.session_id = None (or ""): `if not session_id`
NoSession == 0
\* no answer text: response.text is None, or the response is an error
NoAnswer == "None"

QueryTexts == {"q1", ""}
QueryReqs ==
    [user_id : Users, query_text : QueryTexts,
     session_id : {NoSession} \cup SessionIds]

\* the external calls of one request, in the order the handler makes them
Collaborators ==
    <<"embed_query", "faiss_search", "text_search", "rerank_candidates",
      "generate_answer">>
CollaboratorNames == {Collaborators[i] : i \in 1..Len(Collaborators)}

\* the call of this request that raises: a session-store call, a
\* collaborator, or generation returning no text
Faults ==
    {"none", "create_session", "get_session", "add_user_message",
     "build_context", "add_assistant_message", "generate_no_text"}
    \cup CollaboratorNames

\* what faiss_search and text_search hand back when they succeed
QDense == {<< >>, <<Hit("d1__0", "dense", "float", 1)>>}
QSparse ==
    {setdefault_score(r) :
        r \in {<< >>, <<Hit("d1__0", "sparse", "absent", 0)>>,
               <<Hit("d1__1", "sparse", "absent", 0)>>}}
\* model.predict of the reranker: a score for every (query, text) pair
PredictScores == {1, 2}
Predicts == [MergeChunkIds -> PredictScores]
FirstPredict == [c \in MergeChunkIds |-> IF c = "d1__0" THEN 1 ELSE 2]

\* the results of the calls of one request when none raises; a scoring
\* other than the first only where the order of two candidates hangs on it
QueryResults ==
    {r \in [dense : QDense, sparse : QSparse, predict : Predicts] :
        \/ r.predict = FirstPredict
        \/ /\ r.dense # << >> /\ r.sparse # << >>
           /\ r.dense[1].chunk_id # r.sparse[1].chunk_id
           /\ r.predict["d1__0"] > r.predict["d1__1"]}

\* what the calls of one request do: every result with no call raising, or
\* one call raising (what the others would have returned plays no part)
QueryEnvs ==
    {[fault |-> "none", dense |-> r.dense, sparse |-> r.sparse,
      predict |-> r.predict, answer |-> a] : r \in QueryResults, a \in Answers}
    \cup [fault : Faults \ {"none"}, dense : {<< >>}, sparse : {<< >>},
          predict : {FirstPredict}, answer : Answers]

\* the session-store call a fault names is one this request makes
Applies(req, env) ==
    /\ env.fault = "create_session" => req.session_id = NoSession
    /\ env.fault \in {"get_session", "add_user_message"} =>
          req.session_id # NoSession

\* sorted(..., reverse=True) is stable: c goes after every candidate whose
\* score is at least its own
RECURSIVE InsertDesc(_, _)
InsertDesc(ranked, c) ==
    IF ranked = << >> THEN <<c>>
    ELSE IF Head(ranked).score >= c.score
         THEN <<Head(ranked)>> \o InsertDesc(Tail(ranked), c)
         ELSE <<c>> \o ranked

RECURSIVE SortDesc(_, _)
SortDesc(ranked, rest) ==
    IF rest = << >> THEN ranked
    ELSE SortDesc(InsertDesc(ranked, Head(rest)), Tail(rest))

\* reranker_service.rerank: every candidate gets the model's score, then
\* the candidates are sorted by it, highest first
rerank(candidates, predict) ==
    SortDesc(<< >>,
             [i \in 1..Len(candidates) |->
                 [candidates[i] EXCEPT !.score_is = "float",
                                       !.score = predict[candidates[i].chunk_id]]])

\* variant of Take that keeps the whole list
Take_All(seq, n) == seq

\* ranked[:n]
Take(seq, n) == SubSeq(seq, 1, IF Len(seq) < n THEN Len(seq) ELSE n)

\* c["doc_id"] of a hit: the document its chunk belongs to
\* processors.py names a chunk f"{doc_id}__{seq}"
RankChunkIdsOf(doc) ==
    IF doc = "d1" THEN {"d1__0", "d1__1"} ELSE {"d2__0", "d2__1"}
RankChunkIds == UNION {RankChunkIdsOf(d) : d \in Docs}
DocOfChunk(cid) == CHOOSE d \in Docs : cid \in RankChunkIdsOf(d)

Source(c) == [doc_id |-> DocOfChunk(c.chunk_id), chunk_id |-> c.chunk_id,
              score |-> c.score]

\* list(set(...)): every doc_id once
RECURSIVE Unique(_)
Unique(seq) ==
    IF seq = << >> THEN << >>
    ELSE LET rest == Unique(Tail(seq))
         IN  IF \E i \in 1..Len(rest) : rest[i] = Head(seq)
             THEN rest ELSE <<Head(seq)>> \o rest

\* variant of Raises in which a failing reranker is passed over
Raises_RerankSwallowed(env, call) ==
    env.fault = call /\ call # "rerank_candidates"

\* the call raises (raise_for_status, a provider or a pymongo error) and
\* nothing between it and the handler's `except Exception` catches it
Raises(env, call) == env.fault = call

\* an HTTPException: no answer, no sources, no session_id
QueryError(status, coll, calls, failed) ==
    [status |-> status, coll |-> coll, session_id |-> NoSession,
     answer |-> NoAnswer, sources |-> << >>, calls |-> calls,
     failed |-> failed, context |-> << >>]

\* main.py lines 76-117: retrieval, merge, rerank, generation and the
\* assistant turn, on the sessions coll as the first part left them
query_answer(coll, session_id, req, env, context) ==
    LET called(n) == SubSeq(Collaborators, 1, n)
    IN  IF Raises(env, "embed_query")
        THEN QueryError(500, coll, called(1), "embed_query")
        ELSE IF Raises(env, "faiss_search")
        THEN QueryError(500, coll, called(2), "faiss_search")
        ELSE IF Raises(env, "text_search")
        THEN QueryError(500, coll, called(3), "text_search")
        ELSE LET m == merge(env.dense, env.sparse)
        IN  IF m.status # 200
        THEN QueryError(500, coll, called(3), "merge")
        ELSE IF Raises(env, "rerank_candidates")
        THEN QueryError(500, coll, called(4), "rerank_candidates")
        ELSE LET ranked == rerank(m.candidates, env.predict)
                 top_k == Take(ranked, TopSources)
        IN  IF Raises(env, "generate_answer")
        THEN QueryError(500, coll, called(5), "generate_answer")
        ELSE LET answer == IF env.fault = "generate_no_text"
                           THEN NoAnswer ELSE env.answer
                 sources == [i \in 1..Len(top_k) |-> Source(top_k[i])]
                 doc_ids == Unique([i \in 1..Len(sources) |-> sources[i].doc_id])
        IN  IF Raises(env, "add_assistant_message")
        THEN QueryError(500, coll, called(5), "add_assistant_message")
        ELSE LET written == add_message(coll, session_id, req.user_id,
                                        "assistant", answer, sources, doc_ids)
        IN  \* QueryResponse(answer=None) fails validation
            IF answer = NoAnswer
            THEN QueryError(500, written.coll, called(5), "generate_answer")
            ELSE [status |-> 200, coll |-> written.coll,
                  session_id |-> session_id, answer |-> answer,
                  sources |-> sources, calls |-> called(5),
                  failed |-> "none", context |-> context]

\* main.py lines 70-73, then the rest of the handler
query_context(coll, session_id, req, env) ==
    IF Raises(env, "build_context")
    THEN QueryError(500, coll, << >>, "build_context")
    ELSE query_answer(coll, session_id, req, env,
                      build_context_prompt(coll, session_id, req.user_id,
                                           QueryMaxHistory))

\* the handler of POST /query on the sessions coll; fresh is the uuid a new
\* session would get
query(coll, fresh, req, env) ==
    IF req.session_id = NoSession
    THEN IF Raises(env, "create_session")
         THEN QueryError(500, coll, << >>, "create_session")
         ELSE query_context(create_session(coll, fresh, req.user_id,
                                           req.query_text),
                            fresh, req, env)
    ELSE IF Raises(env, "get_session")
    THEN QueryError(500, coll, << >>, "get_session")
    ELSE IF get_session(coll, req.session_id, req.user_id) = {}
    THEN QueryError(404, coll, << >>, "none")
    ELSE IF Raises(env, "add_user_message")
    THEN QueryError(500, coll, << >>, "add_user_message")
    ELSE query_context(add_message(coll, req.session_id, req.user_id, "user",
                                   req.query_text, NoList, NoList).coll,
                       req.session_id, req, env)

Query ==
    \E req \in QueryReqs, env \in QueryEnvs :
        /\ q_count < MaxQueries
        /\ Applies(req, env)
        /\ req.session_id = NoSession => next_sid < MaxSessions
        /\ LET r == query(sessions, next_sid + 1, req, env)
           IN  /\ sessions' = r.coll
               /\ q_last' = [op |-> "query", req |-> req, status |-> r.status,
                             session_id |-> r.session_id, answer |-> r.answer,
                             sources |-> r.sources, calls |-> r.calls,
                             fault |-> env.fault, context |-> r.context]
        /\ next_sid' = IF req.session_id = NoSession
                       THEN next_sid + 1 ELSE next_sid
        /\ created_by' = IF req.session_id = NoSession
                            /\ env.fault # "create_session"
                         THEN created_by \cup {<<next_sid + 1, req.user_id>>}
                         ELSE created_by
        /\ q_count' = q_count + 1
        /\ UNCHANGED notQuery

NextQuery == Query

SpecQuery == InitApi /\ [][NextQuery]_vars

\* the session with this id, if there is one
SessionsWithId(coll, session_id) == {s \in coll : s.session_id = session_id}

Roles(history) == [i \in 1..Len(history) |-> history[i].role]

\* C12: a successful query without a session_id followed by a successful
\* query passing back the returned session_id yields the same session_id
\* and a session whose history is user, assistant, user, assistant, for any
\* two query texts.
C12_TwoQueriesFourTurns ==
    [][(/\ q_last.op = "query" /\ q_last.status = 200
        /\ q_last.req.session_id = NoSession
        /\ q_count' = q_count + 1
        /\ q_last'.status = 200
        /\ q_last'.req.session_id = q_last.session_id)
       => /\ q_last'.session_id = q_last.session_id
          /\ \E s \in SessionsWithId(sessions', q_last.session_id) :
                Roles(s.conversation_history) =
                    <<"user", "assistant", "user", "assistant">>]_vars

\* C13: when the embedding, dense-search, lexical-search, reranker or
\* generation call of a request fails, the request ends in an error with
\* neither answer nor sources; an answer is returned only when every
\* collaborator call of the request succeeded.
C13_NoPartialAnswer ==
    q_last.op = "query" =>
        /\ q_last.fault \in CollaboratorNames \cup {"generate_no_text"} =>
              /\ q_last.status # 200
              /\ q_last.answer = NoAnswer
              /\ q_last.sources = << >>
        /\ q_last.status = 200 =>
              /\ q_last.fault \notin CollaboratorNames \cup {"generate_no_text"}
              /\ q_last.calls = Collaborators
              /\ q_last.answer \in Answers

\* the reranker failed on a continued session after retrieval had succeeded:
\* an error, though the user turn of the request is already stored
C13_Witness ==
    /\ q_last.op = "query"
    /\ q_last.fault = "rerank_candidates"
    /\ q_last.calls = SubSeq(Collaborators, 1, 4)
    /\ q_last.status = 500
    /\ q_last.req.session_id # NoSession
    /\ \E s \in SessionsWithId(sessions, q_last.req.session_id) :
          /\ Len(s.conversation_history) = 3
          /\ s.conversation_history[3].content = q_last.req.query_text

\* C14: when generation has produced the answer and the append of the
\* assistant turn then fails, the request still returns the answer, the
\* sources and the session_id; the write failure is not surfaced.
C14_SessionWriteBestEffort ==
    (/\ q_last.op = "query"
     /\ q_last.fault = "add_assistant_message"
     /\ q_last.calls = Collaborators)
    => /\ q_last.status = 200
       /\ q_last.answer \in Answers
       /\ q_last.session_id # NoSession

(***************************************************************************)
(* Requests in flight on one session (SpecTurns).  Each call of the        *)
(* session manager is one MongoDB operation on one document and takes      *)
(* effect at once; the calls of different requests interleave.             *)
(***************************************************************************)
\* longest conversation_history the requests may build
MaxTurns == 4

\* the session the requests are about, created by its owner beforehand
TurnSession == 1
TurnOwner == "u1"

\* every client sends its own text and is given its own answer
ClientText(p) == CASE p = 1 -> "q1" [] p = 2 -> "q2" [] OTHER -> "q3"
ClientAnswer(p) == CASE p = 1 -> "a1" [] p = 2 -> "a2" [] OTHER -> "a3"
\* the sources a request found
TurnSources == {NoList, <<[doc_id |-> "d1", chunk_id |-> "d1__0", score |-> 1]>>}

InitTurns ==
    /\ IdleService /\ InitSeq /\ InitConc /\ IdleMerge /\ IdleCtx /\ IdleQuery
    /\ IdleIngest
    /\ sessions = create_session({}, TurnSession, TurnOwner, NoQuery)
    /\ next_sid = 1
    /\ sess_last = [op |-> "none"]
    /\ created_by = {<<TurnSession, TurnOwner>>}
    /\ deleted_sids = {}
    /\ clients = [p \in Clients |-> IdleClient]
    /\ turn_log = << >>

\* appends the requests in flight have still to make
Pending ==
    2 * Cardinality({p \in Clients : clients[p].pc = "add_user"})
    + Cardinality({p \in Clients : clients[p].pc \in {"retrieve", "add_assistant"}})

HistoryLen(coll, session_id) ==
    IF SessionsWithId(coll, session_id) = {} THEN 0
    ELSE Len((CHOOSE s \in SessionsWithId(coll, session_id) : TRUE).conversation_history)

\* an add_message call of client p: the update, and the turn entered in the
\* log when the update matched
Append1(p, user_id, role, content, sources, doc_ids, pc) ==
    LET r == add_message(sessions, TurnSession, user_id, role, content,
                         sources, doc_ids)
    IN  /\ sessions' = r.coll
        /\ turn_log' = IF r.ok
                       THEN Append(turn_log,
                                   [session_id |-> TurnSession,
                                    turn |-> Message(role, content, sources)])
                       ELSE turn_log
        /\ clients' = [clients EXCEPT ![p] = pc]

\* query, lines 52-65: get_session, 404 when it finds nothing
TStart(p) ==
    \E user_id \in Users :
        /\ clients[p].pc = "idle"
        /\ HistoryLen(sessions, TurnSession) + Pending + 2 <= MaxTurns
        /\ clients' = [clients EXCEPT ![p] =
              IF get_session(sessions, TurnSession, user_id) = {}
              THEN IdleClient
              ELSE [pc |-> "add_user", user_id |-> user_id]]
        /\ UNCHANGED <<sessions, turn_log, deleted_sids, notTurns>>

\* query, line 67
TAddUser(p) ==
    /\ clients[p].pc = "add_user"
    /\ Append1(p, clients[p].user_id, "user", ClientText(p), NoList, NoList,
               [clients[p] EXCEPT !.pc = "retrieve"])
    /\ UNCHANGED <<deleted_sids, notTurns>>

\* query, lines 70-105: context, retrieval, rerank and generation; the
\* request goes on to the assistant turn or ends in an error
TRetrieve(p) ==
    \E ok \in BOOLEAN :
        /\ clients[p].pc = "retrieve"
        /\ clients' = [clients EXCEPT ![p] =
              IF ok THEN [clients[p] EXCEPT !.pc = "add_assistant"]
              ELSE IdleClient]
        /\ UNCHANGED <<sessions, turn_log, deleted_sids, notTurns>>

\* query, lines 108-117
TAddAssistant(p) ==
    \E sources \in TurnSources :
        /\ clients[p].pc = "add_assistant"
        /\ Append1(p, clients[p].user_id, "assistant", ClientAnswer(p), sources,
                   Unique([i \in 1..Len(sources) |-> sources[i].doc_id]),
                   IdleClient)
        /\ UNCHANGED <<deleted_sids, notTurns>>

\* a direct add_message call
TAddMessage(p) ==
    \E user_id \in Users, role \in {"user", "assistant"} :
        /\ clients[p].pc = "idle"
        /\ HistoryLen(sessions, TurnSession) + Pending + 1 <= MaxTurns
        /\ Append1(p, user_id, role,
                   IF role = "user" THEN ClientText(p) ELSE ClientAnswer(p),
                   NoList, NoList, IdleClient)
        /\ UNCHANGED <<deleted_sids, notTurns>>

\* DELETE /sessions/{user_id}/{session_id} while requests are in flight
TDelete ==
    \E user_id \in Users :
        LET r == delete_session(sessions, TurnSession, user_id)
        IN  /\ sessions' = r.coll
            /\ deleted_sids' = IF r.ok THEN deleted_sids \cup {TurnSession}
                               ELSE deleted_sids
            /\ UNCHANGED <<clients, turn_log, notTurns>>

NextTurns ==
    \/ \E p \in Clients :
          \/ TStart(p) \/ TAddUser(p) \/ TRetrieve(p) \/ TAddAssistant(p)
          \/ TAddMessage(p)
    \/ TDelete

SpecTurns == InitTurns /\ [][NextTurns]_vars

\* the turns logged for a session, in the order their appends took effect
LoggedTurns(session_id) ==
    LET mine == SelectSeq(turn_log, LAMBDA e : e.session_id = session_id)
    IN  [i \in 1..Len(mine) |-> mine[i].turn]

\* C15: with add_message calls and /query requests running concurrently on
\* one session, every turn whose append succeeded is in conversation_history
\* exactly once, in the order in which the appends took effect.
C15_AppendsKept ==
    \A s \in sessions : s.conversation_history = LoggedTurns(s.session_id)

\* two /query requests interleaved on the session and both completed
C15_Witness ==
    /\ \A p \in Clients : clients[p].pc = "idle"
    /\ \E s \in sessions :
          /\ Len(s.conversation_history) = 4
          /\ s.conversation_history[1].content = ClientText(1)
          /\ s.conversation_history[2].content = ClientText(2)
          /\ s.conversation_history[3].role = "assistant"
          /\ s.conversation_history[4].role = "assistant"

(***************************************************************************)
(* The life of a session (SpecLife): the calls of SpecSess, the delete     *)
(* endpoint and build_context_prompt                                       *)
(***************************************************************************)
\* main.py lines 270-296: 404 when nothing was deleted
DeleteSessionEndpoint ==
    \E session_id \in SessionIds, user_id \in Users :
        LET r == delete_session(sessions, session_id, user_id)
        IN  /\ sessions' = r.coll
            /\ deleted_sids' = IF r.ok THEN deleted_sids \cup {session_id}
                               ELSE deleted_sids
            /\ sess_last' = [op |-> "delete", session_id |-> session_id,
                             user_id |-> user_id, ok |-> r.ok,
                             status |-> IF r.ok THEN 200 ELSE 404]
            /\ UNCHANGED <<next_sid, created_by, notSess>>

BuildContextCall ==
    \E session_id \in SessionIds, user_id \in Users :
        /\ sess_last' = [op |-> "build_context", session_id |-> session_id,
                         user_id |-> user_id,
                         lines |-> build_context_prompt(sessions, session_id,
                                                        user_id, QueryMaxHistory)]
        /\ UNCHANGED <<sessions, next_sid, created_by, deleted_sids, notSess>>

NextLife ==
    \/ CreateSession \/ GetSession \/ AddMessage
    \/ DeleteSessionEndpoint \/ BuildContextCall

SpecLife == InitApi /\ [][NextLife]_vars

\* C16: deletion is terminal and idempotent: after a delete succeeded, every
\* later get, add_message and build_context of that session_id reports
\* nothing / false / the empty string, a repeated delete reports not-found
\* (no error), and a session leaves the collection only through a delete by
\* its owner.
C16_DeleteTerminal ==
    [][LET sid == sess_last'.session_id
           gone == sid \in deleted_sids
       IN  /\ (sess_last'.op = "get" /\ gone) => sess_last'.found = {}
           /\ (sess_last'.op = "add_message" /\ gone) =>
                 ~sess_last'.ok /\ sessions' = sessions
           /\ (sess_last'.op = "build_context" /\ gone) =>
                 sess_last'.lines = << >>
           /\ (sess_last'.op = "delete" /\ gone) =>
                 ~sess_last'.ok /\ sess_last'.status = 404
                 /\ sessions' = sessions
           /\ \A d \in deleted_sids : SessionsWithId(sessions', d) = {}
           /\ \A s \in sessions :
                 SessionsWithId(sessions', s.session_id) = {} =>
                     /\ sess_last'.op = "delete"
                     /\ sess_last'.session_id = s.session_id
                     /\ sess_last'.user_id = s.user_id
                     /\ sess_last'.status = 200]_vars

\* the owner deleted a session, and a second delete by the owner was
\* answered with not-found
C16_Witness ==
    /\ sess_last.op = "delete"
    /\ sess_last.status = 404
    /\ sess_last.session_id \in deleted_sids
    /\ <<sess_last.session_id, sess_last.user_id>> \in created_by
    /\ SessionsWithId(sessions, sess_last.session_id) = {}

(***************************************************************************)
(* One add_message call on any sessions collection (SpecAdd)               *)
(***************************************************************************)
\* longest conversation_history of a session before the call
MaxAddHistory == 2

\* a session of u1 and a session of u2, each with any history, as
\* create_session and earlier add_message calls leave them
InitAdd ==
    /\ IdleService /\ InitSeq /\ InitConc /\ IdleRest
    /\ \E h1, h2 \in SeqsUpTo(MessageArgs, MaxAddHistory) :
          sessions = {Replay(SessionDoc(1, "u1", NoQuery), h1),
                      Replay(SessionDoc(2, "u2", NoQuery), h2)}
    /\ next_sid = 2
    /\ sess_last = [op |-> "none"]
    /\ created_by = {<<1, "u1">>, <<2, "u2">>}
    /\ deleted_sids = {}

\* the call, with the id of a session of the caller, of another owner, or
\* of no session
AddMessageCall ==
    \E session_id \in 1..3, user_id \in Users, msg \in MessageArgs :
        LET r == add_message(sessions, session_id, user_id, msg.role,
                             msg.content, msg.sources, msg.doc_ids)
        IN  /\ sess_last.op = "none"
            /\ sessions' = r.coll
            /\ sess_last' = [op |-> "add_message", session_id |-> session_id,
                             user_id |-> user_id, msg |-> msg, ok |-> r.ok]
            /\ UNCHANGED <<next_sid, created_by, deleted_sids, notSess>>

NextAdd == AddMessageCall

SpecAdd == InitAdd /\ [][NextAdd]_vars

\* C17: add_message returns false and changes no session when no session
\* matches both session_id and owner; when one matches it returns true and
\* appends exactly one turn at the end of that session's history, leaving
\* the earlier turns and every other session as they were.
C17_AddMessageFrame ==
    [][sess_last'.op = "add_message" =>
         LET matched == {s \in sessions :
                            /\ s.session_id = sess_last'.session_id
                            /\ s.user_id = sess_last'.user_id}
             turn == Message(sess_last'.msg.role, sess_last'.msg.content,
                             sess_last'.msg.sources)
         IN  IF matched = {}
             THEN ~sess_last'.ok /\ sessions' = sessions
             ELSE /\ sess_last'.ok
                  /\ \E s \in matched, t \in sessions' :
                        /\ t.session_id = s.session_id
                        /\ t.user_id = s.user_id
                        /\ t.conversation_history =
                              Append(s.conversation_history, turn)
                        /\ sessions' \ {t} = sessions \ {s}]_vars

\* a turn was appended to a session that had turns, next to another session
\* with turns of its own
C17_Witness ==
    /\ sess_last.op = "add_message"
    /\ sess_last.ok
    /\ \E s \in SessionsWithId(sessions, sess_last.session_id) :
          Len(s.conversation_history) = MaxAddHistory + 1
    /\ \E s \in sessions :
          /\ s.session_id # sess_last.session_id
          /\ s.conversation_history # << >>

(***************************************************************************)
(* Dimensionality of the index (Spec)                                      *)
(***************************************************************************)
\* the longest vector among the inputs
MaxDim == CHOOSE n \in {Len(e) : e \in Embeddings} :
              \A e \in Embeddings : Len(e) <= n

\* the chunks of an upsert all carry vectors of the one positive length n
UniformDim(chunks, n) ==
    /\ chunks # << >>
    /\ n > 0
    /\ \A i \in 1..Len(chunks) : Len(chunks[i].embedding) = n

\* C18: all vectors in the index have the length of the index's one active
\* dimensionality, and on an index with zero vectors (or none yet) an upsert
\* or search with vectors of any positive length succeeds and makes that
\* length the active dimensionality.
C18_OneDimension ==
    [][/\ \A i \in 1..ntotal(index') : Len(index'.rows[i].vec) = index'.d
       /\ (ntotal(index) = 0 /\ last'.op = "search" /\ last'.dim > 0) =>
             last'.status = 200 /\ index'.d = last'.dim
       /\ \A n \in 1..MaxDim :
             (ntotal(index) = 0 /\ last'.op = "upsert"
              /\ UniformDim(last'.chunks, n)) =>
                 /\ last'.status = 200
                 /\ index'.d = n
                 /\ ntotal(index') = Len(last'.chunks)]_vars

\* after a document was deleted, a search with a vector of another length
\* succeeded on the emptied index and set its dimensionality
C18_Witness ==
    /\ last.op = "search"
    /\ last.status = 200
    /\ last.dim = 2
    /\ index.d = 2
    /\ ntotal(index) = 0
    /\ index_file = << >>
    /\ deleted_docs # {}
    /\ faiss_mappings = {}

(***************************************************************************)
(* The service across restarts (SpecStart): the requests of Spec, and the  *)
(* process started again on the index file it left                         *)
(***************************************************************************)
\* index = load_index() at import, with whatever EMBED_DIM is set then
Restart ==
    \E EMBED_DIM \in EmbedDims :
        LET r == load_index(index_file, EMBED_DIM)
        IN  /\ index' = r.index
            /\ index_file' = r.index_file
            /\ last' = [op |-> "restart", EMBED_DIM |-> EMBED_DIM]
            /\ UNCHANGED <<faiss_mappings, deleted_docs, notSeq>>

NextStart == Restart \/ Next

SpecStart == Init /\ [][NextStart]_vars

\* the rows of the snapshot; no file holds no rows
FileRows == IF index_file = << >> THEN << >> ELSE index_file[1].rows

\* C19: a dimensionality mismatch is never resolved automatically while the
\* index is non-empty: no step, loading the snapshot at start with another
\* configured dimensionality included, discards stored vectors; the vector
\* count goes down only through delete(doc_id).
C19_NoAutoDiscard ==
    [][last'.op # "delete" =>
          /\ ntotal(index') >= ntotal(index)
          /\ \A i \in 1..ntotal(index) :
                \E j \in 1..ntotal(index') : index'.rows[j] = index.rows[i]]_vars

\* C20: after every completed upsert or delete the snapshot holds exactly
\* the vectors (int key and value) of the in-memory index, so a restart that
\* loads the snapshot restores the same indexed vectors.
C20_SnapshotRestores ==
    [][/\ (last'.op \in {"upsert", "delete"} /\ last'.status = 200) =>
             FileRows' = index'.rows
       /\ last'.op = "restart" => index'.rows = index.rows]_vars

(***************************************************************************)
(* Further properties of the /query endpoint (SpecQuery)                   *)
(***************************************************************************)
\* the sessions with this id that belong to this owner
OwnedSessions(coll, session_id, user_id) ==
    {s \in coll : s.session_id = session_id /\ s.user_id = user_id}

\* C21: a query with a session_id that does not exist or belongs to another
\* owner ends with a not-found error before any collaborator is called,
\* creates no session and leaves every session unchanged (the session
\* lookup itself not failing).
C21_UnknownSessionNotFound ==
    [][(/\ q_count' = q_count + 1
        /\ q_last'.req.session_id # NoSession
        /\ q_last'.fault # "get_session"
        /\ OwnedSessions(sessions, q_last'.req.session_id,
                         q_last'.req.user_id) = {})
       => /\ q_last'.status = 404
          /\ q_last'.calls = << >>
          /\ q_last'.answer = NoAnswer
          /\ q_last'.sources = << >>
          /\ sessions' = sessions
          /\ next_sid' = next_sid]_vars

\* a query named the session of another owner, which holds turns, and got 404
C21_Witness ==
    /\ q_last.op = "query"
    /\ q_last.status = 404
    /\ \E s \in SessionsWithId(sessions, q_last.req.session_id) :
          /\ s.user_id # q_last.req.user_id
          /\ s.conversation_history # << >>


\* C22: on a continued session the user turn of the current query is
\* appended only after generation has returned: the context handed to
\* generation is built from the turns of earlier requests alone, and a
\* request whose retrieval or generation fails has appended nothing.
C22_UserTurnAfterGeneration ==
    [][(/\ q_count' = q_count + 1
        /\ q_last'.req.session_id # NoSession
        /\ OwnedSessions(sessions, q_last'.req.session_id,
                         q_last'.req.user_id) # {})
       => /\ q_last'.status = 200 =>
                q_last'.context =
                    build_context_prompt(sessions, q_last'.req.session_id,
                                         q_last'.req.user_id, QueryMaxHistory)
          /\ q_last'.fault \in CollaboratorNames \cup {"generate_no_text"} =>
                sessions' = sessions]_vars


(***************************************************************************)
(* From the search results to the source list (SpecSources)                *)
(***************************************************************************)
\* longest dense and longest sparse result list of this specification
MaxRankHits == 2

\* faiss_search may hand back a chunk twice (a re-upserted vector);
\* a cursor over chunks yields each chunk document once
RankDense ==
    SeqsUpTo({Hit(c, "dense", "float", 1) : c \in RankChunkIds}, MaxRankHits)
RankSparse ==
    {setdefault_score(r) :
        r \in {c \in SeqsUpTo({Hit(x, "sparse", "float", 2) : x \in RankChunkIds},
                              MaxRankHits)
                     \cup SeqsUpTo({Hit(x, "sparse", "absent", 0) :
                                       x \in RankChunkIds}, MaxRankHits) :
                  \A i, j \in 1..Len(c) :
                      i # j => c[i].chunk_id # c[j].chunk_id}}
RankInputs ==
    [dense : RankDense, sparse : RankSparse,
     predict : [RankChunkIds -> PredictScores]]

\* main.py lines 82-100: merge, rerank, ranked[:3] and the source list
query_sources(dense_hits, sparse_hits, predict) ==
    LET m == merge(dense_hits, sparse_hits)
    IN  IF m.status # 200
        THEN [status |-> 500, ranked |-> << >>, sources |-> << >>]
        ELSE LET ranked == rerank(m.candidates, predict)
                 top_k == Take(ranked, TopSources)
             IN  [status |-> 200, ranked |-> ranked,
                  sources |-> [i \in 1..Len(top_k) |-> Source(top_k[i])]]

InitSources ==
    /\ IdleService /\ InitSeq /\ InitConc /\ InitSess /\ IdleCtx /\ IdleQuery
    /\ IdleTurns /\ IdleIngest
    /\ merge_in \in RankInputs
    /\ merge_out = [status |-> 0]

SelectSources ==
    /\ merge_out.status = 0
    /\ merge_out' = query_sources(merge_in.dense, merge_in.sparse,
                                  merge_in.predict)
    /\ UNCHANGED <<merge_in, notMerge>>

NextSources == SelectSources

SpecSources == InitSources /\ [][NextSources]_vars

\* the chunk_ids of a list of hits
HitIds(hits) == {hits[i].chunk_id : i \in 1..Len(hits)}

\* C23: the source list is the first min(3, n) elements of the reranker's
\* ordering of the n merged candidates, in that order, and every chunk_id
\* in it occurs in the dense or the sparse result set of the request.
C23_SourcesAreTopRanked ==
    merge_out.status = 200 =>
        LET found == HitIds(merge_in.dense) \cup HitIds(merge_in.sparse)
            n == Cardinality(found)
            ranked == merge_out.ranked
            sources == merge_out.sources
        IN  /\ Len(ranked) = n
            /\ Len(sources) = Min(TopSources, n)
            /\ \A i \in 1..Len(sources) :
                  /\ sources[i].chunk_id = ranked[i].chunk_id
                  /\ sources[i].chunk_id \in found

\* four merged candidates from both result sets, three sources returned
C23_Witness ==
    /\ merge_out.status = 200
    /\ merge_in.dense # << >> /\ merge_in.sparse # << >>
    /\ Cardinality(HitIds(merge_in.dense) \cup HitIds(merge_in.sparse)) > TopSources
    /\ Len(merge_out.sources) = TopSources
    /\ merge_out.sources[1].chunk_id \in HitIds(merge_in.sparse)


(***************************************************************************)
(* Upload, ingestion job and document delete (SpecIngest)                  *)
(***************************************************************************)
\* process_document: the chunks of a document's file, in order
ChunkSeq(doc) ==
    IF doc = "d1" THEN <<"d1__0", "d1__1">> ELSE <<"d2__0">>

\* what embed_texts may return for one text: a vector or an empty list
JobEmbeddings == {<<2>>, << >>}

\* variant of raise_for_status that lets every response through
raise_for_status_Never(status) == FALSE

\* requests' Response.raise_for_status: HTTPError on a 4xx or 5xx status
raise_for_status(status) == status >= 400

\* the document record insert_document stores
DocumentDoc(doc_id, user_id) ==
    [doc_id |-> doc_id, user_id |-> user_id, status |-> "queued"]

\* the chunk record ingest_job stores
ChunkDoc(chunk_id, doc_id, user_id) ==
    [chunk_id |-> chunk_id, doc_id |-> doc_id, user_id |-> user_id]

\* documents.update_one({"_id": obj_id}, {"$set": {"status": "indexed"}})
set_status(coll, doc_id, status) ==
    {IF x.doc_id = doc_id THEN [x EXCEPT !.status = status] ELSE x : x \in coll}

\* the uploaded file is on disk until the delete request removes it
FileExists(doc) == jobs[doc].pc # "none" /\ dels[doc].pc # "done"

InitIngest ==
    /\ InitService /\ InitSeq /\ InitConc /\ InitSess
    /\ IdleMerge /\ IdleCtx /\ IdleQuery /\ IdleTurns /\ IdleIngest

notIngest ==
    <<seqVars, concVars, sessVars, mergeVars, ctxVars, queryVars, turnVars,
      isoVars>>

\* POST /upload: the record is stored as queued, then the job is enqueued
\* (q.enqueue may raise: the record stays and no job runs)
Upload(doc) ==
    \E user_id \in Users, enqueued \in BOOLEAN :
        /\ jobs[doc].pc = "none"
        /\ documents' = documents \cup {DocumentDoc(doc, user_id)}
        /\ jobs' = [jobs EXCEPT ![doc] =
                      [pc |-> IF enqueued THEN "queued" ELSE "unqueued",
                       user_id |-> user_id, stored |-> << >>,
                       embeddings |-> << >>, status |-> 0, inserted |-> 0]]
        /\ UNCHANGED <<svcVars, chunks_coll, dels, notIngest>>

\* ingest_job, line 14: process_document reads and chunks the file
JProcess(doc) ==
    \E readable \in BOOLEAN :
        /\ jobs[doc].pc = "queued"
        /\ jobs' = [jobs EXCEPT ![doc].pc =
                      IF FileExists(doc) /\ readable THEN "chunked" ELSE "failed"]
        /\ UNCHANGED <<svcVars, documents, chunks_coll, dels, notIngest>>

\* lines 16-24: one insert_one per chunk
JInsert(doc) ==
    \E ok \in BOOLEAN :
        /\ jobs[doc].pc = "chunked"
        /\ Len(jobs[doc].stored) < Len(ChunkSeq(doc))
        /\ LET cid == ChunkSeq(doc)[Len(jobs[doc].stored) + 1]
           IN  IF ok
               THEN /\ chunks_coll' = Append(chunks_coll,
                                             ChunkDoc(cid, doc, jobs[doc].user_id))
                    /\ jobs' = [jobs EXCEPT ![doc].stored = Append(@, cid)]
               ELSE /\ chunks_coll' = chunks_coll
                    /\ jobs' = [jobs EXCEPT ![doc].pc = "failed"]
        /\ UNCHANGED <<svcVars, documents, dels, notIngest>>

\* lines 26-27: embed_texts returns one embedding per text, or raises
JEmbed(doc) ==
    /\ jobs[doc].pc = "chunked"
    /\ Len(jobs[doc].stored) = Len(ChunkSeq(doc))
    /\ \/ \E e \in [1..Len(ChunkSeq(doc)) -> JobEmbeddings] :
             jobs' = [jobs EXCEPT ![doc].pc = "embedded", ![doc].embeddings = e]
       \/ jobs' = [jobs EXCEPT ![doc].pc = "failed"]
    /\ UNCHANGED <<svcVars, documents, chunks_coll, dels, notIngest>>

\* faiss_client.upsert_vectors: the payload of the job
JobPayload(doc) ==
    [doc_id |-> doc, user_id |-> jobs[doc].user_id,
     chunks |-> [i \in 1..Len(ChunkSeq(doc)) |->
                    [chunk_id |-> ChunkSeq(doc)[i],
                     embedding |-> jobs[doc].embeddings[i]]]]

\* line 28: the upsert request to the vector service
JUpsert(doc) ==
    /\ jobs[doc].pc = "embedded"
    /\ LET r == upsert(Cur, JobPayload(doc))
       IN  /\ Install(r.s)
           /\ jobs' = [jobs EXCEPT
                         ![doc].pc = IF raise_for_status(r.status)
                                     THEN "failed" ELSE "upserted",
                         ![doc].status = r.status,
                         ![doc].inserted = r.inserted]
    /\ UNCHANGED <<documents, chunks_coll, dels, notIngest>>

\* lines 30-36: the status update, the last statement of the job
JMark(doc) ==
    /\ jobs[doc].pc = "upserted"
    /\ documents' = set_status(documents, doc, "indexed")
    /\ jobs' = [jobs EXCEPT ![doc].pc = "done"]
    /\ UNCHANGED <<svcVars, chunks_coll, dels, notIngest>>

\* DELETE /documents/{doc_id}, lines 152-154: find_one, 404 when absent
DelFind(doc) ==
    /\ dels[doc].pc = "idle"
    /\ dels' = [dels EXCEPT ![doc].pc =
                  IF \E x \in documents : x.doc_id = doc
                  THEN "found" ELSE "notfound"]
    /\ UNCHANGED <<svcVars, documents, chunks_coll, jobs, notIngest>>

\* line 157: chunks.delete_many({"doc_id": doc_id})
DelChunks(doc) ==
    /\ dels[doc].pc = "found"
    /\ chunks_coll' = SelectSeq(chunks_coll, LAMBDA c : c.doc_id # doc)
    /\ dels' = [dels EXCEPT ![doc].pc = "chunks_deleted"]
    /\ UNCHANGED <<svcVars, documents, jobs, notIngest>>

\* line 160: the delete request to the vector service
DelVectors(doc) ==
    /\ dels[doc].pc = "chunks_deleted"
    /\ Install(delete(Cur, doc).s)
    /\ dels' = [dels EXCEPT ![doc].pc = "vectors_deleted"]
    /\ UNCHANGED <<documents, chunks_coll, jobs, notIngest>>

\* line 163: documents.delete_one({"_id": obj_id})
DelDoc(doc) ==
    /\ dels[doc].pc = "vectors_deleted"
    /\ documents' = {x \in documents : x.doc_id # doc}
    /\ dels' = [dels EXCEPT ![doc].pc = "doc_deleted"]
    /\ UNCHANGED <<svcVars, chunks_coll, jobs, notIngest>>

\* lines 166-174: os.remove of the file, then the response
DelFile(doc) ==
    /\ dels[doc].pc = "doc_deleted"
    /\ dels' = [dels EXCEPT ![doc].pc = "done"]
    /\ UNCHANGED <<svcVars, documents, chunks_coll, jobs, notIngest>>

NextIngest ==
    \E doc \in Docs :
        \/ Upload(doc) \/ JProcess(doc) \/ JInsert(doc) \/ JEmbed(doc)
        \/ JUpsert(doc) \/ JMark(doc)
        \/ DelFind(doc) \/ DelChunks(doc) \/ DelVectors(doc) \/ DelDoc(doc) \/ DelFile(doc)

SpecIngest == InitIngest /\ [][NextIngest]_vars

ChunksLeft(doc) ==
    {i \in 1..Len(chunks_coll) : chunks_coll[i].doc_id = doc}
MappingsLeft(doc) == find_by_doc(faiss_mappings, doc)
VectorsLeft(doc) ==
    {i \in 1..ntotal(index) :
        \E cid \in ChunkIdsOf(doc) : index.rows[i].id = chunkid_to_int64(cid)}

\* C27: once a delete request for a document and that document's
\* ingestion job have both completed, in whatever order their steps
\* interleaved, no chunk record, mapping entry or index vector of the
\* document remains.
C27_DeleteLeavesNothing ==
    \A doc \in Docs :
        (/\ dels[doc].pc = "done"
         /\ jobs[doc].pc \in {"done", "failed"})
        => /\ ChunksLeft(doc) = {}
           /\ MappingsLeft(doc) = {}
           /\ VectorsLeft(doc) = {}


\* the turns of a role in a history
TurnsOf(history, role) == {i \in 1..Len(history) : history[i].role = role}

\* C25: in every session reached through create and add_message,
\* metadata.total_queries is the number of user turns in
\* conversation_history: 0 after a create without initial query, 1 with
\* one, one more per appended user turn and unchanged by assistant turns.
C25_TotalQueriesCountsUserTurns ==
    \A s \in sessions :
        s.metadata.total_queries =
            Cardinality(TurnsOf(s.conversation_history, "user"))

\* a session created with a query, continued once: two user turns and
\* two assistant turns
C25_Witness ==
    \E s \in sessions :
        /\ s.metadata.total_queries = 2
        /\ Len(s.conversation_history) = 4
        /\ TurnsOf(s.conversation_history, "assistant") = {2, 4}


(***************************************************************************)
(* Failed upserts (Spec)                                                   *)
(***************************************************************************)
\* C26: an upsert that ends in an error leaves the vectors of the index,
\* the mapping table and the snapshot exactly as they were.
C26_FailedUpsertNoEffect ==
    [][(last'.op = "upsert" /\ last'.status # 200)
       => /\ index'.rows = index.rows
          /\ faiss_mappings' = faiss_mappings
          /\ index_file' = index_file]_vars


\* C29: after any sequence of query requests on a session, failed ones
\* included, conversation_history consists of user/assistant pairs: it
\* starts with a user turn, every assistant turn directly follows a user
\* turn, and no two user turns are adjacent.
C29_HistoryIsPairs ==
    \A s \in sessions :
        LET h == s.conversation_history
        IN  /\ h # << >> => h[1].role = "user"
            /\ \A i \in TurnsOf(h, "assistant") :
                  i > 1 /\ h[i - 1].role = "user"
            /\ \A i \in TurnsOf(h, "user") :
                  i < Len(h) => h[i + 1].role # "user"


(***************************************************************************)
(* Sources of one owner beside other owners' documents (SpecIsol)          *)
(***************************************************************************)
\* top_k of faiss_search and text_search in query (10 in the source),
\* scaled to the size of the index here
QueryTopK == 1

\* the owner whose answers are compared; the twin deployment ingests the
\* documents of this owner and of nobody else
Observer == "u1"

IsoEmbeddings == {<<2>>, <<-3>>}

\* text_search: the filter on user_id (when given) and on the text, then
\* limit(top_k); the regex fallback projects no score
text_search(coll, matching, user_id, text_index, top_k) ==
    LET found == SelectSeq(coll, LAMBDA c :
                     /\ Truthy(user_id) => c.user_id = user_id
                     /\ c.chunk_id \in matching)
        results == Take(found, top_k)
    IN  setdefault_score(
            [i \in 1..Len(results) |->
                IF text_index
                THEN Hit(results[i].chunk_id, "sparse", "float", 1)
                ELSE Hit(results[i].chunk_id, "sparse", "absent", 0)])

\* what one /query request asks of its collaborators
IsoQueries ==
    [embedding : IsoEmbeddings, matching : {{}, RankChunkIds},
     text_index : BOOLEAN, predict : [RankChunkIds -> {1}]]

\* main.py lines 76-100 on one deployment: [status, sources, svc]
answer_sources(svc, coll, user_id, q) ==
    LET d == search(svc, [embedding |-> q.embedding, top_k |-> QueryTopK,
                          user_id |-> user_id])
        dense_hits == [i \in 1..Len(d.results) |->
                          Hit(d.results[i].chunk_id, "dense", "float",
                              d.results[i].score)]
        sparse_hits == text_search(coll, q.matching, user_id, q.text_index,
                                   QueryTopK)
        r == query_sources(dense_hits, sparse_hits, q.predict)
    IN  IF raise_for_status(d.status)
        THEN [status |-> 500, sources |-> << >>, svc |-> d.s]
        ELSE [status |-> r.status, sources |-> r.sources, svc |-> d.s]

\* ingest_job run to its end on one deployment: the chunk records, then
\* the upsert of their vectors
ingest(dep, doc, user_id, e) ==
    [svc |-> upsert(dep.svc,
                    [doc_id |-> doc, user_id |-> user_id,
                     chunks |-> [i \in 1..Len(ChunkSeq(doc)) |->
                                    [chunk_id |-> ChunkSeq(doc)[i],
                                     embedding |-> e[i]]]]).s,
     chunks |-> dep.chunks \o
                [i \in 1..Len(ChunkSeq(doc)) |->
                    ChunkDoc(ChunkSeq(doc)[i], doc, user_id)]]

notIsol ==
    <<seqVars, concVars, sessVars, mergeVars, ctxVars, queryVars, turnVars,
      documents, jobs, dels>>

\* a document of some owner is uploaded and ingested; the twin takes part
\* when the owner is the observer
Ingest ==
    \E doc \in Docs, user_id \in Users :
      \E e \in [1..Len(ChunkSeq(doc)) -> IsoEmbeddings] :
        /\ \A i \in 1..Len(chunks_coll) : chunks_coll[i].doc_id # doc
        /\ LET dep == ingest([svc |-> Cur, chunks |-> chunks_coll], doc,
                             user_id, e)
           IN  /\ Install(dep.svc)
               /\ chunks_coll' = dep.chunks
        /\ twin' = IF user_id = Observer THEN ingest(twin, doc, user_id, e)
                   ELSE twin
        /\ UNCHANGED <<iso_last, notIsol>>

\* the observer puts the same query to both deployments
IsoQuery ==
    \E q \in IsoQueries :
        LET a == answer_sources(Cur, chunks_coll, Observer, q)
            b == answer_sources(twin.svc, twin.chunks, Observer, q)
        IN  /\ Install(a.svc)
            /\ twin' = [twin EXCEPT !.svc = b.svc]
            /\ iso_last' = [op |-> "query", q |-> q,
                            status |-> a.status, sources |-> a.sources,
                            twin_status |-> b.status,
                            twin_sources |-> b.sources]
            /\ UNCHANGED <<chunks_coll, notIsol>>

NextIsol == Ingest \/ IsoQuery

SpecIsol == InitIngest /\ [][NextIsol]_vars

\* the owner the chunk store records for a chunk
OwnersOf(chunk_id) ==
    {chunks_coll[i].user_id :
        i \in {j \in 1..Len(chunks_coll) : chunks_coll[j].chunk_id = chunk_id}}

\* C28: every source a query of owner U returns refers to a chunk owned by
\* U, whichever search found it, and the sources are those the same query
\* returns when the other owners' documents are absent.
C28_SourcesIsolated ==
    iso_last.op = "query" =>
        /\ \A i \in 1..Len(iso_last.sources) :
              OwnersOf(iso_last.sources[i].chunk_id) = {Observer}
        /\ iso_last.status = iso_last.twin_status
        /\ iso_last.sources = iso_last.twin_sources

=============================================================================
